---- MODULE Spec2Model ----
(***************************************************************************)
(* Model of the Bitbucket branch harvester, harvest_bitbucket_branches.py. *)
(*                                                                         *)
(* The harvester is a single-threaded asyncio program.  A step of the      *)
(* model is what one coroutine does between two suspension points: the     *)
(* orchestrator (main_async), one unit of work per repository              *)
(* (process_repo) and one tip resolution per branch (process_repo.one).    *)
(* A logical GET (backoff_get) is in flight between the step that issues   *)
(* it and the step that receives its outcome: a parsed body, the absence   *)
(* signal (None), or an exception raised by resp.json() or by the code     *)
(* that reads the body.  The rate limiter is modelled on its own, with a   *)
(* clock, under SpecLimiter.                                               *)
(***************************************************************************)
EXTENDS Integers, Sequences, FiniteSets, TLC

\* ------------------------------------------------------------------------
\* Program constants
\* ------------------------------------------------------------------------
\* inner_sem = asyncio.Semaphore(16)
InnerBound == 16
\* the factor of "args.max_concurrent * 4" in the backpressure test
BackpressureFactor == 4
\* RETRIABLE
RETRIABLE == {429, 500, 502, 503, 504}
\* backoff_get(retries=6)
Retries == 6
\* min(2 ** attempt, 30)
BackoffCap == 30
\* "// 86400" in days_since_iso
DaySeconds == 86400
\* "ms / 1000.0" in iso_from_ms
MsPerSecond == 1000
\* "if ms is None" in iso_from_ms: the value that stands for None
NoTime == -1

\* ------------------------------------------------------------------------
\* Bounds of the model
\* ------------------------------------------------------------------------
\* --max-concurrent takes the values 1..MaxOuter
MaxOuter == 2
\* at most this many logical GETs of a run end in the absence signal or raise
MaxFaults == 2
\* the number of branches of the repository of the "wide" server
WideBranches == 17
\* the limiter's clock runs from 0 to MaxTime
MaxTime == 6
\* 1/rps, in clock ticks
MinInterval == 2
\* the number of coroutines that call wait() on the shared limiter
NCallers == 3
\* the number of times each of them calls wait()
MaxCalls == 1
\* the number of calls of backoff_get in flight together
NGets == 1
\* the server's list has 0..MaxItems entries
MaxItems == 4
\* the server puts 1..MaxPageSize entries on a page
MaxPageSize == 2
\* a generator makes at most this many page requests
MaxRequests == 6
\* the number of runs that append to the same CSV file
MaxRuns == 4
\* the CSV file grows to at most this many lines
MaxLines == 6
\* the number of repositories of the run whose files are looked at
SinkRepos == 3
\* a repository has 1..SinkRows rows
SinkRows == 2
\* the resume log has at most this many lines
MaxLog == 3
\* against any server a generator makes at most this many page requests
MaxPages == 3
\* any server names an offset in 0..MaxNext as nextPageStart
MaxNext == 3
\* the repositories whose rows interleave in the outputs
MirrorRepos == {1, 2}
\* a repository of these has 0..MirrorBranches branches
MirrorBranches == 2

VARIABLES
    max_concurrent, \* args.max_concurrent
    srv,            \* which server the run crawls
    already,        \* set of ResumeKeys read from the resume log at startup
    resume_log,     \* the lines of the resume file, in order
    stop,           \* the stop flag set by handle_sig
    opc,            \* where main_async is
    pidx,           \* index in Projects of the project being discovered
    page,           \* number of the page of repositories requested last
    items,          \* items of the current page not yet iterated over
    lastpage,       \* the current page said isLastPage (or the sequence ended)
    tasks,          \* the units in main_async's list "tasks"
    units,          \* every unit created, in creation order
    faults,         \* logical GETs that ended in the absence signal or raised
    now,            \* limiter: time.perf_counter()
    last,           \* limiter: RateLimiter._last
    cst,            \* limiter: where each caller of wait() is
    wake,           \* limiter: when each sleeping caller's sleep is over
    grants,         \* limiter: the times at which wait() returned
    rq,             \* retry layer: where each call of backoff_get is
    pg,             \* paginator: one paged_get generator and its server
    hd,             \* the CSV file on disk and the run that appends to it
    rw,             \* one item on its way through the fetchers to its row
    su,             \* startup of main_async, from its arguments
    sk,             \* the three output files of a run, with their buffers
    rs              \* a resume log and what startup reads from it

ovars == <<max_concurrent, srv, already, resume_log, stop, opc, pidx, page,
           items, lastpage, tasks, units, faults>>
lvars == <<now, last, cst, wake, grants>>
svars == <<rq, pg, hd, rw, su, sk, rs>>
vars == <<max_concurrent, srv, already, resume_log, stop, opc, pidx, page,
          items, lastpage, tasks, units, faults, now, last, cst, wake, grants,
          rq, pg, hd, rw, su, sk, rs>>

\* ------------------------------------------------------------------------
\* The server: what the REST API answers when a fetch succeeds
\* ------------------------------------------------------------------------
\* Four servers are crawled:
\*   "pair"  two projects of two repositories each, with 0, 1 or 2 branches
\*   "many"  one project whose second page lists six branchless repositories
\*   "wide"  one repository with WideBranches branches
\*   "dup"   a project file that names one project twice, whose only page
\*           lists the same one-branch repository twice
\* the project keys of the project file
Projects ==
    IF srv = "pair" THEN <<1, 2>>
    ELSE IF srv = "dup" THEN <<1, 1>>
    ELSE <<1>>

\* GET /projects/{key}/repos: the pages of repository slugs of project p;
\* the last page carries isLastPage = true
RepoPages(p) ==
    IF srv = "wide" THEN <<<<1>>>>
    ELSE IF srv = "many" THEN <<<<1>>, <<2, 3, 4, 5, 6, 7>>>>
    ELSE IF srv = "dup" THEN <<<<1, 1>>>>
    ELSE IF p = 1 THEN <<<<1, 2>>>>
    ELSE <<<<1>>, <<2>>>>

\* GET .../branches: the number of branches on each page of the listing
BranchPages(p, slug) ==
    IF srv = "wide" THEN <<WideBranches>>
    ELSE IF srv = "many" THEN <<0>>
    ELSE IF srv = "dup" THEN <<1>>
    ELSE IF p = 1 /\ slug = 1 THEN <<1, 1>>
    ELSE IF p = 1 /\ slug = 2 THEN <<0>>
    ELSE IF p = 2 /\ slug = 1 THEN <<2>>
    ELSE <<1>>

\* whether the branch listing of the repository carries latestCommit
HasLatestCommit(p, slug) == srv = "wide" \/ p = 2

\* f"{pkey}/{repo['slug']}"
ResumeKey(p, slug) == <<p, slug>>

\* ------------------------------------------------------------------------
\* Units of work
\* ------------------------------------------------------------------------
\* A unit is one call of process_repo.  st is where the call is:
\*   "queued"    created by asyncio.create_task, not yet past "async with sem"
\*   "enum"      holds sem; a page of the branch listing is in flight
\*   "gather"    holds sem; suspended in asyncio.gather
\*   "done"      returned;  "error"  ended in an exception
\*   "cancelled" cancelled by asyncio.run after main_async raised
\* The tip resolutions of the unit (process_repo.one) are counted by where
\* they are: w wait for inner_sem, q have the commit-log query in flight,
\* h have the commit-by-hash query in flight, ex raised, cx were cancelled;
\* wr rows of the unit are written to ndjson_fh and fl of them are flushed.
NewUnit(p, slug) ==
    [proj |-> p, slug |-> slug, st |-> "queued", bpage |-> 0, nb |-> 0,
     listed |-> FALSE, trunc |-> FALSE, w |-> 0, q |-> 0, h |-> 0,
     wr |-> 0, fl |-> 0, ex |-> 0, cx |-> 0, stub |-> <<>>]

KeyOf(u) == ResumeKey(u.proj, u.slug)

\* t.done() of the unit's task
TaskDone(u) == u.st \in {"done", "error", "cancelled"}

\* the units that hold the outer semaphore
Holders == {i \in DOMAIN units : units[i].st \in {"enum", "gather"}}

\* ndjson_fh.flush(): every row written to the shared handle reaches the file
FlushAll(us) == [i \in DOMAIN us |-> [us[i] EXCEPT !.fl = us[i].wr]]

\* asyncio.run cancels every task that is still pending when main_async ends
CancelAll(us) ==
    [i \in DOMAIN us |->
        [us[i] EXCEPT !.st = IF TaskDone(us[i]) THEN @ ELSE "cancelled",
                      !.cx = @ + us[i].w + us[i].q + us[i].h,
                      !.w = 0, !.q = 0, !.h = 0]]

\* the rows a repository gets: one per enumerated branch, or the stub
RowsOf(u) == IF u.nb = 0 THEN 1 ELSE u.nb

\* main_async is suspended in an await, so that other tasks may run:
\*   "page_wait"  in get_repos, a page of repositories is in flight
\*   "bp_wait"    in asyncio.wait
\*   "drain"      in the loop over asyncio.as_completed
\*   "closing"    in the exit of "async with aiohttp.ClientSession", normally
\*   "crashing"   in the same exit, with an exception on its way out
\* In "iter" main_async is running; "closed" and "crashed" are its ends.
Suspended == opc \in {"page_wait", "bp_wait", "drain", "closing", "crashing"}

\* ------------------------------------------------------------------------
\* Initial state: after startup, before the loop over the projects
\* ------------------------------------------------------------------------
AlreadyChoices == {{}, {ResumeKey(2, 1)}}

LogOf(keys) == IF keys = {} THEN <<>> ELSE <<CHOOSE k \in keys : TRUE>>

LimiterIdle ==
    /\ now = 0
    /\ last = 0
    /\ cst = <<>>
    /\ wake = <<>>
    /\ grants = <<>>

\* no backoff_get call, generator or CSV run is looked at on its own
SideIdle ==
    /\ rq = <<>>
    /\ pg = <<>>
    /\ hd = <<>>
    /\ rw = <<>>
    /\ su = <<>>
    /\ sk = <<>>
    /\ rs = <<>>

Init ==
    /\ \/ srv = "pair" /\ max_concurrent \in 1..MaxOuter
          /\ already \in AlreadyChoices
       \/ srv = "many" /\ max_concurrent = 1 /\ already = {}
       \/ srv = "wide" /\ max_concurrent = 1 /\ already = {}
       \/ srv = "dup" /\ max_concurrent = 1 /\ already = {}
    /\ resume_log = LogOf(already)
    /\ stop = FALSE
    /\ opc = "iter"
    /\ pidx = 0
    /\ page = 0
    /\ items = <<>>
    /\ lastpage = TRUE
    /\ tasks = {}
    /\ units = <<>>
    /\ faults = 0
    /\ LimiterIdle
    /\ SideIdle

\* ------------------------------------------------------------------------
\* main_async
\* ------------------------------------------------------------------------
\* handle_sig: the signal handler sets the flag and nothing else
Signal ==
    /\ opc \notin {"closed", "crashed"}
    /\ ~stop
    /\ stop' = TRUE
    /\ UNCHANGED <<max_concurrent, srv, already, resume_log, opc, pidx, page,
                   items, lastpage, tasks, units, faults>>
    /\ UNCHANGED <<lvars, svars>>

\* a loop over the projects that is left as soon as any fetch has failed
AfterProjectAborting ==
    IF stop \/ pidx >= Len(Projects) \/ faults > 0
    THEN /\ opc' = "drain"
         /\ items' = <<>>
         /\ lastpage' = TRUE
         /\ UNCHANGED <<pidx, page>>
    ELSE /\ opc' = "page_wait"
         /\ pidx' = pidx + 1
         /\ page' = 1
         /\ items' = <<>>
         /\ lastpage' = FALSE

\* "for pkey in projects: if stop: break", then get_repos requests page 1
AfterProject ==
    IF stop \/ pidx >= Len(Projects)
    THEN /\ opc' = "drain"
         /\ items' = <<>>
         /\ lastpage' = TRUE
         /\ UNCHANGED <<pidx, page>>
    ELSE /\ opc' = "page_wait"
         /\ pidx' = pidx + 1
         /\ page' = 1
         /\ items' = <<>>
         /\ lastpage' = FALSE

\* "key in already": the repository was completed by a prior run
IsDoneNever(key) == FALSE

IsDone(key) == key \in already

\* the backpressure test after tasks.append(t)
Backpressure(ts, us) ==
    Cardinality({i \in ts : ~TaskDone(us[i])}) > max_concurrent * BackpressureFactor

\* One iteration of "async for repo in get_repos(...)" that needs no fetch,
\* or the end of the page: the next page is requested, or the next project.
IterItem ==
    /\ opc = "iter"
    /\ \/ /\ items = <<>>
          /\ lastpage
          /\ AfterProject
          /\ UNCHANGED <<tasks, units>>
       \/ /\ items = <<>>
          /\ ~lastpage
          /\ opc' = "page_wait"
          /\ page' = page + 1
          /\ UNCHANGED <<pidx, items, lastpage, tasks, units>>
       \/ /\ items # <<>>
          /\ IsDone(ResumeKey(Projects[pidx], Head(items)))
          /\ items' = Tail(items)
          /\ UNCHANGED <<opc, pidx, page, lastpage, tasks, units>>
       \/ /\ items # <<>>
          /\ ~IsDone(ResumeKey(Projects[pidx], Head(items)))
          /\ stop
          /\ AfterProject
          /\ UNCHANGED <<tasks, units>>
       \/ /\ items # <<>>
          /\ ~IsDone(ResumeKey(Projects[pidx], Head(items)))
          /\ ~stop
          /\ units' = Append(units, NewUnit(Projects[pidx], Head(items)))
          /\ tasks' = tasks \cup {Len(units) + 1}
          /\ items' = Tail(items)
          /\ opc' = IF Backpressure(tasks', units') THEN "bp_wait" ELSE "iter"
          /\ UNCHANGED <<pidx, page, lastpage>>
    /\ UNCHANGED <<max_concurrent, srv, already, resume_log, stop, faults>>
    /\ UNCHANGED <<lvars, svars>>

\* The outcome of the logical GET of a page of repositories (paged_get under
\* get_repos): the page, the absence signal, which ends the sequence, or an
\* exception, which leaves main_async through the "async for".
RepoPageResp ==
    /\ opc = "page_wait"
    /\ \/ /\ items' = RepoPages(Projects[pidx])[page]
          /\ lastpage' = (page = Len(RepoPages(Projects[pidx])))
          /\ opc' = "iter"
          /\ UNCHANGED <<units, faults>>
       \/ /\ faults < MaxFaults
          /\ faults' = faults + 1
          /\ items' = <<>>
          /\ lastpage' = TRUE
          /\ opc' = "iter"
          /\ UNCHANGED units
       \/ /\ faults < MaxFaults
          /\ faults' = faults + 1
          /\ opc' = "crashing"
          /\ UNCHANGED <<items, lastpage, units>>
    /\ UNCHANGED <<max_concurrent, srv, already, resume_log, stop, pidx, page,
                   tasks>>
    /\ UNCHANGED <<lvars, svars>>

\* asyncio.wait(tasks, return_when=FIRST_COMPLETED) returns once a task of
\* the list is done, also one that was done before the call; the list then
\* keeps the pending tasks.
BackpressureWait ==
    /\ opc = "bp_wait"
    /\ \E i \in tasks : TaskDone(units[i])
    /\ tasks' = {i \in tasks : ~TaskDone(units[i])}
    /\ opc' = "iter"
    /\ UNCHANGED <<max_concurrent, srv, already, resume_log, stop, pidx, page,
                   items, lastpage, units, faults>>
    /\ UNCHANGED <<lvars, svars>>

\* "for t in asyncio.as_completed(tasks)" has awaited every task of the list
\* (their exceptions are dropped); main_async leaves the session block
Drain ==
    /\ opc = "drain"
    /\ \A i \in tasks : TaskDone(units[i])
    /\ opc' = "closing"
    /\ UNCHANGED <<max_concurrent, srv, already, resume_log, stop, pidx, page,
                   items, lastpage, tasks, units, faults>>
    /\ UNCHANGED <<lvars, svars>>

\* The session is closed: the three handles are closed, which flushes them,
\* and main_async returns 0.  asyncio.run then cancels the tip resolutions
\* that a failed unit left behind.
CloseOutputs ==
    /\ opc = "closing"
    /\ opc' = "closed"
    /\ units' = FlushAll(CancelAll(units))
    /\ UNCHANGED <<max_concurrent, srv, already, resume_log, stop, pidx, page,
                   items, lastpage, tasks, faults>>
    /\ UNCHANGED <<lvars, svars>>

\* The session is closed and the exception leaves main_async: nothing is
\* drained, no handle is closed, and asyncio.run cancels every pending task.
Abort ==
    /\ opc = "crashing"
    /\ opc' = "crashed"
    /\ units' = CancelAll(units)
    /\ UNCHANGED <<max_concurrent, srv, already, resume_log, stop, pidx, page,
                   items, lastpage, tasks, faults>>
    /\ UNCHANGED <<lvars, svars>>

\* ------------------------------------------------------------------------
\* process_repo
\* ------------------------------------------------------------------------
\* resume_fh.write(f"{project_key}/{slug}\n"); resume_fh.flush()
MarkDone(log, key) == Append(log, key)

\* ------------------------------------------------------------------------
\* JSON values and the pure functions on them
\* ------------------------------------------------------------------------
\* a key that is not in a JSON object, and JSON null (Python None)
Missing == "<missing>"

Null == "<null>"

\* bool(v) of a string, null or boolean
Truthy(v) == v \notin {Missing, Null, "", "false"}

\* d.get(key, default), on the value of the key
Get(v, default) == IF v = Missing THEN default ELSE v

\* a or b
OrElse(a, b) == IF Truthy(a) THEN a ELSE b

Max(a, b) == IF a >= b THEN a ELSE b

\* str(n) of an integer: sign and decimal digits; "" has no digits
RECURSIVE Digits(_)
Digits(n) == IF n < 10 THEN <<n>> ELSE Append(Digits(n \div 10), n % 10)

Str(n) == [neg |-> n < 0, digits |-> Digits(IF n < 0 THEN 0 - n ELSE n)]

EmptyStr == [neg |-> FALSE, digits |-> <<>>]

\* an ISO-8601 UTC timestamp string: whole seconds and milliseconds since
\* the epoch; NoIso is the empty string
NoIso == [known |-> FALSE, sec |-> 0, msec |-> 0]

\* iso_from_ms; NoTime stands for None (the key is missing or null)
iso_from_ms(ms) ==
    IF ms = NoTime THEN NoIso
    ELSE [known |-> TRUE, sec |-> ms \div MsPerSecond, msec |-> ms % MsPerSecond]

\* days_since_iso, with datetime.now(timezone.utc) = utcnow (in milliseconds)
days_since_isoUnclamped(iso_str, utcnow) ==
    IF ~iso_str.known THEN EmptyStr
    ELSE Str((utcnow - (iso_str.sec * MsPerSecond + iso_str.msec))
                 \div (DaySeconds * MsPerSecond))

days_since_iso(iso_str, utcnow) ==
    IF ~iso_str.known THEN EmptyStr
    ELSE Str(Max(0, (utcnow - (iso_str.sec * MsPerSecond + iso_str.msec))
                        \div (DaySeconds * MsPerSecond)))

\* get_repos: the dict made of an item of the repository listing;
\* repo["slug"] raises KeyError when the item has no slug
RepoHasSlug(repo) == repo.slug # Missing

RepoOf(repo) ==
    [slug |-> repo.slug,
     name |-> OrElse(Get(repo.name, Null), repo.slug),
     state |-> Get(repo.state, "AVAILABLE")]

\* get_branches: br.get("id", "") is a string of segments joined by "/",
\* or None, and None.split raises AttributeError
BranchNameFails(br) == ~Truthy(Get(br.displayId, Null)) /\ br.id.kind = "null"

BranchOf(br) ==
    [name |-> IF Truthy(Get(br.displayId, Null)) THEN br.displayId
              ELSE IF br.id.kind = "str" THEN br.id.segs[Len(br.id.segs)]
              ELSE "",
     latestCommit |-> Get(br.latestCommit, Null),
     isDefault |-> Get(br.isDefault, "false")]

\* c.get("author", {}) or {}
EmptyAuthor ==
    [kind |-> "dict", name |-> Missing, displayName |-> Missing,
     emailAddress |-> Missing]

AuthorOf(c) == IF c.author.kind = "dict" THEN c.author ELSE EmptyAuthor

\* get_tip_commit: "if data and data.get('values')"
HasValues(data) == data.kind = "values"

\* get_tip_commit: "if latest_hash"
FallbackWantedAlways(latest_hash) == TRUE

FallbackWanted(latest_hash) == Truthy(latest_hash)

\* get_tip_commit: "if c", c being None or a JSON object
HashFound(c) ==
    /\ c.kind = "values"
    /\ ~(c.c.id = Missing /\ c.c.author.kind = "missing"
         /\ c.c.authorTimestamp = NoTime)

\* get_tip_commit: the CommitInfo from the first value of the commit log
TipFromLog(c) ==
    [hash |-> Get(c.id, ""),
     author_name |-> OrElse(OrElse(Get(AuthorOf(c).name, Null),
                                   Get(AuthorOf(c).displayName, Null)), ""),
     author_email |-> OrElse(Get(AuthorOf(c).emailAddress, Null), ""),
     date_iso |-> iso_from_ms(c.authorTimestamp)]

\* get_tip_commit: the CommitInfo of the fallback by commit hash
TipFromHash(c) ==
    [hash |-> Get(c.id, ""),
     author_name |-> Get(AuthorOf(c).name, ""),
     author_email |-> Get(AuthorOf(c).emailAddress, ""),
     date_iso |-> NoIso]

BlankTip == [hash |-> "", author_name |-> "", author_email |-> "",
             date_iso |-> NoIso]

CSV_HEADER ==
    <<"project_key", "repo", "repo_slug", "branch", "last_commit_hash",
      "last_commit_author", "last_commit_email", "last_commit_date_utc",
      "days_since_last_commit", "is_default_branch">>

make_row(project_key, repo_name, repo_slug, br, tip, utcnow) ==
    [project_key |-> project_key, repo |-> repo_name,
     repo_slug |-> repo_slug, branch |-> br.name,
     last_commit_hash |-> tip.hash, last_commit_author |-> tip.author_name,
     last_commit_email |-> tip.author_email,
     last_commit_date_utc |-> tip.date_iso,
     days_since_last_commit |-> days_since_iso(tip.date_iso, utcnow),
     is_default_branch |-> IF Truthy(br.isDefault) THEN "yes" ELSE "no"]

\* [row.get(k, "") for k in CSV_HEADER]: the columns of the CSV row
CsvRow(row) ==
    [k \in {CSV_HEADER[i] : i \in DOMAIN CSV_HEADER} |->
        IF k \in DOMAIN row THEN row[k] ELSE ""]

\* make_empty_repo_record: the stub of a repository without branches
make_empty_repo_record(project_key, repo_name, repo_slug) ==
    [project_key |-> project_key, repo |-> repo_name,
     repo_slug |-> repo_slug, branch |-> "", last_commit_hash |-> "",
     last_commit_author |-> "", last_commit_email |-> "",
     last_commit_date_utc |-> NoIso, days_since_last_commit |-> EmptyStr,
     is_default_branch |-> "no", has_branches |-> "no"]

\* rec = make_empty_repo_record(...); ndjson_fh.write(...); ndjson_fh.flush()
EmitStubNone(us, i) == FlushAll(us)

EmitStub(us, i) ==
    FlushAll([us EXCEPT ![i].wr = 1,
                        ![i].stub = <<make_empty_repo_record(us[i].proj,
                                                              us[i].slug,
                                                              us[i].slug)>>])

\* ndjson_fh.flush() after asyncio.gather
FlushRowsOmitted(us) == us

FlushRows(us) == FlushAll(us)

\* the outer semaphore has a free slot
OuterFree == Cardinality(Holders) < max_concurrent

\* inner_sem has a free slot for a tip resolution of unit u
InnerFreeAlways(u) == TRUE

InnerFree(u) == u.q + u.h < InnerBound

\* "async with sem" is entered in the order in which the tasks were created;
\* get_branches then requests the first page of the branch listing
UnitStart(i) ==
    /\ Suspended
    /\ units[i].st = "queued"
    /\ \A j \in DOMAIN units : j < i => units[j].st # "queued"
    /\ OuterFree
    /\ units' = [units EXCEPT ![i].st = "enum", ![i].bpage = 1]
    /\ UNCHANGED <<max_concurrent, srv, already, resume_log, stop, opc, pidx,
                   page, items, lastpage, tasks, faults>>
    /\ UNCHANGED <<lvars, svars>>

\* (a listing that ends in the absence signal fails the unit)
ListingEndsStrict(i, n, truncated) ==
    IF truncated
    THEN /\ units' = [units EXCEPT ![i].st = "error", ![i].trunc = TRUE]
         /\ UNCHANGED resume_log
    ELSE IF n = 0
    THEN /\ units' = EmitStub([units EXCEPT ![i].st = "done",
                                            ![i].listed = TRUE], i)
         /\ resume_log' = MarkDone(resume_log, KeyOf(units[i]))
    ELSE /\ units' = [units EXCEPT ![i].st = "gather", ![i].listed = TRUE,
                                   ![i].nb = n, ![i].w = n]
         /\ UNCHANGED resume_log

\* "branches = [br async for br in get_branches(...)]" has ended with n
\* branches: the stub is written and the repository marked done, or the tip
\* resolutions are created and the unit suspends in asyncio.gather
ListingEnds(i, n, truncated) ==
    IF n = 0
    THEN /\ units' = EmitStub([units EXCEPT ![i].st = "done",
                                            ![i].listed = TRUE,
                                            ![i].trunc = truncated], i)
         /\ resume_log' = MarkDone(resume_log, KeyOf(units[i]))
    ELSE /\ units' = [units EXCEPT ![i].st = "gather", ![i].listed = TRUE,
                                   ![i].trunc = truncated, ![i].nb = n,
                                   ![i].w = n]
         /\ UNCHANGED resume_log

\* The outcome of the logical GET of a page of the branch listing.
BranchPageResp(i) ==
    /\ Suspended
    /\ units[i].st = "enum"
    /\ LET u == units[i]
           pages == BranchPages(u.proj, u.slug)
       IN \/ /\ u.bpage < Len(pages)
             /\ units' = [units EXCEPT ![i].nb = @ + pages[u.bpage],
                                       ![i].bpage = @ + 1]
             /\ UNCHANGED <<resume_log, faults>>
          \/ /\ u.bpage = Len(pages)
             /\ ListingEnds(i, u.nb + pages[u.bpage], FALSE)
             /\ UNCHANGED faults
          \/ /\ faults < MaxFaults
             /\ faults' = faults + 1
             /\ ListingEnds(i, u.nb, TRUE)
          \/ /\ faults < MaxFaults
             /\ faults' = faults + 1
             /\ units' = [units EXCEPT ![i].st = "error"]
             /\ UNCHANGED resume_log
    /\ UNCHANGED <<max_concurrent, srv, already, stop, opc, pidx, page, items,
                   lastpage, tasks>>
    /\ UNCHANGED <<lvars, svars>>

\* one(br) enters "async with inner_sem" and get_tip_commit issues the
\* commit-log query.  A tip resolution runs whether or not the unit that
\* created it has ended: asyncio.gather does not cancel its children.
TipStart(i) ==
    /\ Suspended
    /\ units[i].st \in {"gather", "error"}
    /\ units[i].w > 0
    /\ InnerFree(units[i])
    /\ units' = [units EXCEPT ![i].w = @ - 1, ![i].q = @ + 1]
    /\ UNCHANGED <<max_concurrent, srv, already, resume_log, stop, opc, pidx,
                   page, items, lastpage, tasks, faults>>
    /\ UNCHANGED <<lvars, svars>>

\* The outcome of the commit-log query: a commit (the row is written), no
\* values or the absence signal (the fallback by hash when the listing gave
\* latestCommit, else the row with blank commit fields), or an exception.
TipLogResp(i) ==
    /\ Suspended
    /\ units[i].st \in {"gather", "error"}
    /\ units[i].q > 0
    /\ LET u == units[i]
           fallback == [units EXCEPT ![i].q = @ - 1, ![i].h = @ + 1]
           written == [units EXCEPT ![i].q = @ - 1, ![i].wr = @ + 1]
       IN \/ /\ units' = written
             /\ UNCHANGED faults
          \/ /\ units' = IF HasLatestCommit(u.proj, u.slug)
                         THEN fallback ELSE written
             /\ UNCHANGED faults
          \/ /\ faults < MaxFaults
             /\ faults' = faults + 1
             /\ units' = IF HasLatestCommit(u.proj, u.slug)
                         THEN fallback ELSE written
          \/ /\ faults < MaxFaults
             /\ faults' = faults + 1
             /\ units' = [units EXCEPT ![i].q = @ - 1, ![i].ex = @ + 1]
    /\ UNCHANGED <<max_concurrent, srv, already, resume_log, stop, opc, pidx,
                   page, items, lastpage, tasks>>
    /\ UNCHANGED <<lvars, svars>>

\* The outcome of the commit-by-hash query: the commit or the absence signal
\* (either way the row is written), or an exception.
TipHashResp(i) ==
    /\ Suspended
    /\ units[i].st \in {"gather", "error"}
    /\ units[i].h > 0
    /\ \/ /\ units' = [units EXCEPT ![i].h = @ - 1, ![i].wr = @ + 1]
          /\ UNCHANGED faults
       \/ /\ faults < MaxFaults
          /\ faults' = faults + 1
          /\ units' = [units EXCEPT ![i].h = @ - 1, ![i].wr = @ + 1]
       \/ /\ faults < MaxFaults
          /\ faults' = faults + 1
          /\ units' = [units EXCEPT ![i].h = @ - 1, ![i].ex = @ + 1]
    /\ UNCHANGED <<max_concurrent, srv, already, resume_log, stop, opc, pidx,
                   page, items, lastpage, tasks>>
    /\ UNCHANGED <<lvars, svars>>

\* (the repository is marked done without awaiting asyncio.gather)
FinishRepoEarly(i) ==
    /\ Suspended
    /\ units[i].st = "gather"
    /\ units[i].ex = 0
    /\ units' = FlushRows([units EXCEPT ![i].st = "done"])
    /\ resume_log' = MarkDone(resume_log, KeyOf(units[i]))
    /\ UNCHANGED <<max_concurrent, srv, already, stop, opc, pidx, page, items,
                   lastpage, tasks, faults>>
    /\ UNCHANGED <<lvars, svars>>

\* asyncio.gather returned: flush, mark the repository done, return
FinishRepo(i) ==
    /\ Suspended
    /\ units[i].st = "gather"
    /\ units[i].w + units[i].q + units[i].h = 0
    /\ units[i].ex = 0
    /\ units' = FlushRows([units EXCEPT ![i].st = "done"])
    /\ resume_log' = MarkDone(resume_log, KeyOf(units[i]))
    /\ UNCHANGED <<max_concurrent, srv, already, stop, opc, pidx, page, items,
                   lastpage, tasks, faults>>
    /\ UNCHANGED <<lvars, svars>>

\* asyncio.gather raised the first exception of a tip resolution: the unit
\* leaves "async with sem" and ends in that exception
UnitError(i) ==
    /\ Suspended
    /\ units[i].st = "gather"
    /\ units[i].ex > 0
    /\ units' = [units EXCEPT ![i].st = "error"]
    /\ UNCHANGED <<max_concurrent, srv, already, resume_log, stop, opc, pidx,
                   page, items, lastpage, tasks, faults>>
    /\ UNCHANGED <<lvars, svars>>

\* ------------------------------------------------------------------------
\* RateLimiter, with a clock (SpecLimiter)
\* ------------------------------------------------------------------------
Callers == 1..NCallers

\* main_async and its units are not running
CrawlIdle ==
    /\ max_concurrent = 1
    /\ srv = "none"
    /\ already = {}
    /\ resume_log = <<>>
    /\ stop = FALSE
    /\ opc = "closed"
    /\ pidx = 0
    /\ page = 0
    /\ items = <<>>
    /\ lastpage = TRUE
    /\ tasks = {}
    /\ units = <<>>
    /\ faults = 0

\* RateLimiter.__init__ sets _last = 0.0; time.perf_counter() is at any
\* value when wait() is first called
InitLimiter ==
    /\ CrawlIdle
    /\ now \in 0..MinInterval
    /\ last = 0
    /\ cst = [c \in Callers |-> [pc |-> "idle", calls |-> 0]]
    /\ wake = [c \in Callers |-> 0]
    /\ grants = <<>>
    /\ SideIdle

\* time passes
Tick ==
    /\ now < MaxTime
    /\ now' = now + 1
    /\ UNCHANGED <<last, cst, wake, grants>>
    /\ UNCHANGED <<ovars, svars>>

\* wait() up to its await: when less than min_interval has elapsed since
\* _last the caller suspends in asyncio.sleep(min_interval - elapsed); else
\* it sets _last and returns
WaitCall(c) ==
    /\ cst[c].pc = "idle"
    /\ cst[c].calls < MaxCalls
    /\ LET elapsed == now - last
       IN \/ /\ elapsed < MinInterval
             /\ cst' = [cst EXCEPT ![c].pc = "sleeping", ![c].calls = @ + 1]
             /\ wake' = [wake EXCEPT ![c] = now + (MinInterval - elapsed)]
             /\ UNCHANGED <<last, grants>>
          \/ /\ elapsed >= MinInterval
             /\ cst' = [cst EXCEPT ![c].calls = @ + 1]
             /\ last' = now
             /\ grants' = Append(grants, now)
             /\ UNCHANGED wake
    /\ UNCHANGED now
    /\ UNCHANGED <<ovars, svars>>

\* the sleep is over: wait() sets _last and returns
WaitWake(c) ==
    /\ cst[c].pc = "sleeping"
    /\ now >= wake[c]
    /\ cst' = [cst EXCEPT ![c].pc = "idle"]
    /\ last' = now
    /\ grants' = Append(grants, now)
    /\ UNCHANGED <<now, wake>>
    /\ UNCHANGED <<ovars, svars>>

NextLimiter ==
    \/ Tick
    \/ \E c \in Callers : WaitCall(c)
    \/ \E c \in Callers : WaitWake(c)

SpecLimiter == InitLimiter /\ [][NextLimiter]_vars


Next ==
    \/ Signal
    \/ IterItem
    \/ RepoPageResp
    \/ BackpressureWait
    \/ Drain
    \/ CloseOutputs
    \/ Abort
    \/ \E i \in DOMAIN units : UnitStart(i)
    \/ \E i \in DOMAIN units : BranchPageResp(i)
    \/ \E i \in DOMAIN units : TipStart(i)
    \/ \E i \in DOMAIN units : TipLogResp(i)
    \/ \E i \in DOMAIN units : TipHashResp(i)
    \/ \E i \in DOMAIN units : FinishRepo(i)
    \/ \E i \in DOMAIN units : UnitError(i)

Spec == Init /\ [][Next]_vars

FairSpec == Spec /\ WF_vars(Next)

\* ------------------------------------------------------------------------
\* backoff_get, attempt by attempt (SpecRetry)
\* ------------------------------------------------------------------------
Min(a, b) == IF a <= b THEN a ELSE b

Gets == 1..NGets

\* what the server answers: a status and, below 400, a body that is JSON,
\* empty (resp.json() gives None) or not JSON (resp.json() raises
\* json.JSONDecodeError, which no except clause of backoff_get names)
Statuses == {200, 404, 501} \cup RETRIABLE

Bodies == {"json", "empty", "garbage"}

\* min(2 ** attempt, 30) after a retriable status
BackoffDelayUncapped(attempt) == 2 ^ attempt

BackoffDelay(attempt) == Min(2 ^ attempt, BackoffCap)

\* min(2 ** attempt, 30) after aiohttp.ClientError or asyncio.TimeoutError
ErrorDelayNone(attempt) == 0

ErrorDelay(attempt) == Min(2 ^ attempt, BackoffCap)

IsRetriableAll5xx(status) == status = 429 \/ status >= 500

IsRetriable(status) == status \in RETRIABLE

\* "if limiter: await limiter.wait()": get_repos, get_branches and
\* get_tip_commit all pass the run's limiter
WaitsBeforeFirstOnly(attempt) == attempt = 0

WaitsBefore(attempt) == TRUE

\* a call of backoff_get at "for attempt in range(retries)"; status -1: no
\* answer yet, status 0: the last attempt ended in an exception
NewGet ==
    [pc |-> "loop", attempt |-> 0, tries |-> 0, waits |-> 0,
     sleeps |-> <<>>, slept |-> 0, status |-> -1, allRetriable |-> TRUE,
     result |-> "pending"]

InitRetry ==
    /\ CrawlIdle
    /\ LimiterIdle
    /\ rq = [g \in Gets |-> NewGet]
    /\ pg = <<>>
    /\ hd = <<>>
    /\ rw = <<>>
    /\ su = <<>>
    /\ sk = <<>>
    /\ rs = <<>>

\* top of the loop body: limiter.wait() returns at once or suspends in its
\* sleep; when it has returned session.get() starts the physical attempt
GetAttempt(g) ==
    /\ rq[g].pc = "loop"
    /\ \E paced \in BOOLEAN :
          rq' = [rq EXCEPT ![g] =
                    IF WaitsBefore(rq[g].attempt) /\ paced
                    THEN [@ EXCEPT !.pc = "pacing"]
                    ELSE [@ EXCEPT !.pc = "get", !.tries = @ + 1,
                             !.waits = IF WaitsBefore(rq[g].attempt)
                                       THEN @ + 1 ELSE @]]
    /\ UNCHANGED <<ovars, lvars, pg, hd, rw, su, sk, rs>>

\* the limiter's sleep is over: wait() returns, session.get() starts
PacingDone(g) ==
    /\ rq[g].pc = "pacing"
    /\ rq' = [rq EXCEPT ![g].pc = "get", ![g].tries = @ + 1,
                        ![g].waits = @ + 1]
    /\ UNCHANGED <<ovars, lvars, pg, hd, rw, su, sk, rs>>

\* a response arrives
GetResponse(g) ==
    /\ rq[g].pc = "get"
    /\ \E status \in Statuses, body \in Bodies :
          rq' = [rq EXCEPT ![g] =
                    IF IsRetriable(status)
                    THEN [@ EXCEPT !.pc = "backoff", !.status = status,
                             !.sleeps = Append(@, BackoffDelay(rq[g].attempt))]
                    ELSE IF status >= 400
                    THEN [@ EXCEPT !.pc = "returned", !.status = status,
                             !.allRetriable = FALSE, !.result = "absent"]
                    ELSE IF body = "garbage"
                    THEN [@ EXCEPT !.pc = "raised", !.status = status,
                             !.allRetriable = FALSE, !.result = "raised"]
                    ELSE [@ EXCEPT !.pc = "returned", !.status = status,
                             !.allRetriable = FALSE,
                             !.result = IF body = "json" THEN "body"
                                        ELSE "absent"]]
    /\ UNCHANGED <<ovars, lvars, pg, hd, rw, su, sk, rs>>

\* aiohttp.ClientError (connection errors, ContentTypeError) or
\* asyncio.TimeoutError: caught, backoff sleep
GetError(g) ==
    /\ rq[g].pc = "get"
    /\ rq' = [rq EXCEPT ![g].pc = "backoff", ![g].status = 0,
                        ![g].allRetriable = FALSE,
                        ![g].sleeps = Append(@, ErrorDelay(rq[g].attempt))]
    /\ UNCHANGED <<ovars, lvars, pg, hd, rw, su, sk, rs>>

\* the backoff sleep is over: next attempt, or after the last one the
\* loop ends and backoff_get returns None
BackoffDone(g) ==
    /\ rq[g].pc = "backoff"
    /\ LET r == rq[g]
           d == r.sleeps[Len(r.sleeps)]
       IN rq' = [rq EXCEPT ![g] =
                    IF r.attempt + 1 < Retries
                    THEN [@ EXCEPT !.pc = "loop", !.attempt = @ + 1,
                             !.slept = @ + d]
                    ELSE [@ EXCEPT !.pc = "returned", !.attempt = @ + 1,
                             !.slept = @ + d, !.result = "absent"]]
    /\ UNCHANGED <<ovars, lvars, pg, hd, rw, su, sk, rs>>

NextRetry ==
    \/ \E g \in Gets : GetAttempt(g)
    \/ \E g \in Gets : PacingDone(g)
    \/ \E g \in Gets : GetResponse(g)
    \/ \E g \in Gets : GetError(g)
    \/ \E g \in Gets : BackoffDone(g)

SpecRetry == InitRetry /\ [][NextRetry]_vars

\* ------------------------------------------------------------------------
\* paged_get over a paged server (SpecPaged)
\* ------------------------------------------------------------------------
\* The server holds entries at offsets 0..n-1; entry number i (1..n) is at
\* offset i-1 and is either an item or hidden from this user. A page of
\* "size" entries from offset "start" carries the items among them. A
\* server that does not send nextPageStart hides nothing.
RECURSIVE Visible(_, _, _)
Visible(lo, hi, hidden) ==
    IF lo > hi THEN <<>>
    ELSE (IF lo \in hidden THEN <<>> ELSE <<lo>>) \o Visible(lo + 1, hi, hidden)

PageOf(p, start) ==
    [values |-> Visible(start + 1, Min(start + p.size, p.n), p.hidden),
     isLastPage |-> start + p.size >= p.n,
     hasNext |-> p.hinted /\ start + p.size < p.n,
     nextPageStart |-> start + p.size]

\* start = data.get("nextPageStart", start + len(values))
NextStartComputed(data, start) == start + Len(data.values)

NextStart(data, start) ==
    IF data.hasNext THEN data.nextPageStart ELSE start + Len(data.values)

\* "if not data: return"
OnAbsentSkip(p) ==
    [p EXCEPT !.failed = TRUE, !.start = @ + p.size,
              !.requests = Append(@, p.start + p.size)]

OnAbsent(p) == [p EXCEPT !.pc = "ended", !.failed = TRUE]

\* after the values of a page: return on isLastPage, else the next request
AfterValues(p) ==
    IF p.last THEN [p EXCEPT !.pc = "ended"]
    ELSE [p EXCEPT !.pc = "get", !.start = p.next,
                   !.requests = Append(@, p.next)]

\* the generator has run to its first await of backoff_get, with start = 0
InitPaged ==
    /\ CrawlIdle
    /\ LimiterIdle
    /\ rq = <<>>
    /\ hd = <<>>
    /\ rw = <<>>
    /\ su = <<>>
    /\ sk = <<>>
    /\ rs = <<>>
    /\ \E n \in 0..MaxItems, size \in 1..MaxPageSize, hinted \in BOOLEAN :
       \E hidden \in (IF hinted THEN SUBSET (1..n) ELSE {{}}) :
          pg = [n |-> n, size |-> size, hinted |-> hinted, hidden |-> hidden,
                pc |-> "get", start |-> 0, requests |-> <<0>>, buf |-> <<>>,
                last |-> FALSE, next |-> 0, yielded |-> <<>>,
                failed |-> FALSE]

\* backoff_get returns a page
PageResp ==
    /\ pg.pc = "get"
    /\ Len(pg.requests) <= MaxRequests
    /\ LET data == PageOf(pg, pg.start)
           p == [pg EXCEPT !.buf = data.values, !.last = data.isLastPage,
                           !.next = NextStart(data, pg.start)]
       IN pg' = IF data.values = <<>> THEN AfterValues(p)
                ELSE [p EXCEPT !.pc = "yield"]
    /\ UNCHANGED <<ovars, lvars, rq, hd, rw, su, sk, rs>>

\* "yield v"; after the last value of the page the generator goes on
PageYield ==
    /\ pg.pc = "yield"
    /\ LET p == [pg EXCEPT !.yielded = Append(@, Head(pg.buf)),
                           !.buf = Tail(@)]
       IN pg' = IF p.buf = <<>> THEN AfterValues(p) ELSE p
    /\ UNCHANGED <<ovars, lvars, rq, hd, rw, su, sk, rs>>

\* backoff_get returns None
PageAbsent ==
    /\ pg.pc = "get"
    /\ Len(pg.requests) <= MaxRequests
    /\ pg' = OnAbsent(pg)
    /\ UNCHANGED <<ovars, lvars, rq, hd, rw, su, sk, rs>>

\* backoff_get raises: the exception leaves the generator
PageRaise ==
    /\ pg.pc = "get"
    /\ pg' = [pg EXCEPT !.pc = "raised"]
    /\ UNCHANGED <<ovars, lvars, rq, hd, rw, su, sk, rs>>

NextPaged ==
    \/ PageResp
    \/ PageYield
    \/ PageAbsent
    \/ PageRaise

SpecPaged == InitPaged /\ [][NextPaged]_vars

\* ------------------------------------------------------------------------
\* paged_get over any server (SpecOffsets)
\* ------------------------------------------------------------------------
\* Here the server may answer a page request with any page: 0..MaxPageSize
\* values, isLastPage true or false (or missing, which reads as false), and
\* nextPageStart missing or any offset in 0..MaxNext.
AnyPages ==
    [values : {[j \in 1..k |-> j] : k \in 0..MaxPageSize},
     isLastPage : BOOLEAN,
     hasNext : BOOLEAN,
     nextPageStart : 0..MaxNext]

\* the generator has run to its first await of backoff_get, with start = 0
InitOffsets ==
    /\ CrawlIdle
    /\ LimiterIdle
    /\ rq = <<>>
    /\ hd = <<>>
    /\ rw = <<>>
    /\ su = <<>>
    /\ sk = <<>>
    /\ rs = <<>>
    /\ pg = [pc |-> "get", start |-> 0, requests |-> <<0>>, buf |-> <<>>,
             last |-> FALSE, next |-> 0, yielded |-> <<>>, failed |-> FALSE]

\* backoff_get returns a page; the request that follows a non-last page is
\* made as soon as its values have been yielded
OffsetResp ==
    /\ pg.pc = "get"
    /\ \E data \in AnyPages :
          LET p == [pg EXCEPT !.buf = data.values, !.last = data.isLastPage,
                              !.next = NextStart(data, pg.start)]
          IN /\ data.isLastPage \/ Len(pg.requests) < MaxPages
             /\ pg' = IF data.values = <<>> THEN AfterValues(p)
                      ELSE [p EXCEPT !.pc = "yield"]
    /\ UNCHANGED <<ovars, lvars, rq, hd, rw, su, sk, rs>>

\* "yield v"
OffsetYield ==
    /\ pg.pc = "yield"
    /\ LET p == [pg EXCEPT !.yielded = Append(@, Head(pg.buf)),
                           !.buf = Tail(@)]
       IN pg' = IF p.buf = <<>> THEN AfterValues(p) ELSE p
    /\ UNCHANGED <<ovars, lvars, rq, hd, rw, su, sk, rs>>

\* backoff_get returns None
OffsetAbsent ==
    /\ pg.pc = "get"
    /\ pg' = OnAbsent(pg)
    /\ UNCHANGED <<ovars, lvars, rq, hd, rw, su, sk, rs>>

\* backoff_get raises
OffsetRaise ==
    /\ pg.pc = "get"
    /\ pg' = [pg EXCEPT !.pc = "raised"]
    /\ UNCHANGED <<ovars, lvars, rq, hd, rw, su, sk, rs>>

NextOffsets ==
    \/ OffsetResp
    \/ OffsetYield
    \/ OffsetAbsent
    \/ OffsetRaise

SpecOffsets == InitOffsets /\ [][NextOffsets]_vars

\* ------------------------------------------------------------------------
\* The CSV file over a sequence of runs (SpecHeader)
\* ------------------------------------------------------------------------
\* Lines are "H" (CSV_HEADER) or "R" (a row). csv_fh is opened in append
\* mode and is buffered: lines reach the disk when the buffer is flushed
\* (buffer full, close, interpreter exit) and are lost when the process is
\* killed first.
\* os.stat(args.out_csv).st_size: every line has at least one byte
FileSize(lines) == Len(lines)

NeedsHeaderAlways(size) == TRUE

NeedsHeader(size) == size = 0

\* before the first run the file does not exist
InitHeader ==
    /\ CrawlIdle
    /\ LimiterIdle
    /\ rq = <<>>
    /\ pg = <<>>
    /\ rw = <<>>
    /\ su = <<>>
    /\ sk = <<>>
    /\ rs = <<>>
    /\ hd = [disk |-> <<>>, buf |-> <<>>, pc |-> "idle", runs |-> 0]

\* a run opens the file and writes the header when the file is empty
RunOpen ==
    /\ hd.pc = "idle"
    /\ hd.runs < MaxRuns
    /\ hd' = [hd EXCEPT !.pc = "running", !.runs = @ + 1,
                        !.buf = IF NeedsHeader(FileSize(hd.disk))
                                THEN <<"H">> ELSE <<>>]
    /\ UNCHANGED <<ovars, lvars, rq, pg, rw, su, sk, rs>>

\* csv_writer.writerow of a branch row or a stub
RowWrite ==
    /\ hd.pc = "running"
    /\ Len(hd.disk) + Len(hd.buf) < MaxLines
    /\ hd' = [hd EXCEPT !.buf = Append(@, "R")]
    /\ UNCHANGED <<ovars, lvars, rq, pg, rw, su, sk, rs>>

\* the io buffer is written out
BufferFlush ==
    /\ hd.pc = "running"
    /\ hd.buf # <<>>
    /\ hd' = [hd EXCEPT !.disk = @ \o hd.buf, !.buf = <<>>]
    /\ UNCHANGED <<ovars, lvars, rq, pg, rw, su, sk, rs>>

\* csv_fh.close(), or the interpreter exits and finalises the file
RunClose ==
    /\ hd.pc = "running"
    /\ hd' = [hd EXCEPT !.disk = @ \o hd.buf, !.buf = <<>>, !.pc = "idle"]
    /\ UNCHANGED <<ovars, lvars, rq, pg, rw, su, sk, rs>>

\* the process is killed: what is in the buffer is lost
RunKilled ==
    /\ hd.pc = "running"
    /\ hd' = [hd EXCEPT !.buf = <<>>, !.pc = "idle"]
    /\ UNCHANGED <<ovars, lvars, rq, pg, rw, su, sk, rs>>

NextHeader ==
    \/ RunOpen
    \/ RowWrite
    \/ BufferFlush
    \/ RunClose
    \/ RunKilled

SpecHeader == InitHeader /\ [][NextHeader]_vars

\* ------------------------------------------------------------------------
\* One item from the listings to its row (SpecRow)
\* ------------------------------------------------------------------------
\* The responses here are successful or absent; what backoff_get does with
\* a body it cannot parse is in SpecRetry.
RepoItems ==
    [slug : {Missing, "r1"}, name : {Missing, Null, "Repo One"},
     state : {Missing, "OFFLINE"}]

BranchIds ==
    {[kind |-> "missing", segs |-> <<>>], [kind |-> "null", segs |-> <<>>],
     [kind |-> "str", segs |-> <<"refs", "heads", "main">>]}

BranchItems ==
    [displayId : {Missing, "dev"}, id : BranchIds,
     latestCommit : {Missing, "abc123"},
     isDefault : {Missing, "true", "false"}]

Authors ==
    {[kind |-> k, name |-> Missing, displayName |-> Missing,
      emailAddress |-> Missing] : k \in {"missing", "null"}}
    \cup [kind : {"dict"}, name : {Missing, "Ann"},
          displayName : {Missing, "Ann D"}, emailAddress : {Missing, "ann@x"}]

\* authorTimestamp, in milliseconds
Times == {0, 86400000, 259200000}

\* datetime.now(timezone.utc), in milliseconds
Nows == {86399999, 172800000}

Commits ==
    [id : {Missing, "abc123"}, author : Authors,
     authorTimestamp : {NoTime} \cup Times]

NoCommit ==
    [id |-> Missing,
     author |-> [kind |-> "missing", name |-> Missing,
                 displayName |-> Missing, emailAddress |-> Missing],
     authorTimestamp |-> NoTime]

\* what backoff_get returns: None ("absent"), an object without a usable
\* "values" ("empty": {} or "values": []), or an object / a list with one
\* commit ("values")
Responses ==
    {[kind |-> k, c |-> NoCommit] : k \in {"absent", "empty"}}
    \cup {[kind |-> "values", c |-> c] : c \in Commits}

NoResponse == [kind |-> "none", c |-> NoCommit]

InitRow ==
    /\ CrawlIdle
    /\ LimiterIdle
    /\ rq = <<>>
    /\ pg = <<>>
    /\ hd = <<>>
    /\ su = <<>>
    /\ sk = <<>>
    /\ rs = <<>>
    /\ rw = [pc |-> "repo_item", repo |-> <<>>, br |-> <<>>,
             log |-> NoResponse, byhash |-> NoResponse, reqs |-> <<>>,
             row |-> <<>>, csv |-> <<>>, utcnow |-> 0]

\* get_repos yields the dict of an item, or raises
RepoItem ==
    /\ rw.pc = "repo_item"
    /\ \E repo \in RepoItems :
          rw' = IF RepoHasSlug(repo)
                THEN [rw EXCEPT !.pc = "listing", !.repo = RepoOf(repo)]
                ELSE [rw EXCEPT !.pc = "raised"]
    /\ UNCHANGED <<ovars, lvars, rq, pg, hd, su, sk, rs>>

\* process_repo: the listing is empty, the stub is written
EmitStubRow ==
    /\ rw.pc = "listing"
    /\ LET rec == make_empty_repo_record(1, rw.repo.name, rw.repo.slug)
       IN rw' = [rw EXCEPT !.pc = "emitted", !.row = rec,
                           !.csv = CsvRow(rec)]
    /\ UNCHANGED <<ovars, lvars, rq, pg, hd, su, sk, rs>>

\* get_branches yields the dict of an item, or raises; one(br) starts and
\* get_tip_commit asks for the commit log
BranchItem ==
    /\ rw.pc = "listing"
    /\ \E br \in BranchItems :
          rw' = IF BranchNameFails(br)
                THEN [rw EXCEPT !.pc = "raised"]
                ELSE [rw EXCEPT !.pc = "tip_log", !.br = BranchOf(br),
                                !.reqs = <<"log">>]
    /\ UNCHANGED <<ovars, lvars, rq, pg, hd, su, sk, rs>>

\* one(br) after get_tip_commit has returned tip: the row is written
Emitted(r, tip, utcnow) ==
    LET row == make_row(1, r.repo.name, r.repo.slug, r.br, tip, utcnow)
    IN [r EXCEPT !.pc = "emitted", !.row = row, !.csv = CsvRow(row),
                 !.utcnow = utcnow]

\* the answer to the commit-log query
TipLog ==
    /\ rw.pc = "tip_log"
    /\ \E data \in Responses, utcnow \in Nows :
          LET r == [rw EXCEPT !.log = data]
          IN rw' = IF HasValues(data)
                   THEN Emitted(r, TipFromLog(data.c), utcnow)
                   ELSE IF FallbackWanted(rw.br.latestCommit)
                   THEN [r EXCEPT !.pc = "tip_hash",
                                  !.reqs = Append(@, "hash")]
                   ELSE Emitted(r, BlankTip, utcnow)
    /\ UNCHANGED <<ovars, lvars, rq, pg, hd, su, sk, rs>>

\* the answer to the commit-by-hash request
TipHash ==
    /\ rw.pc = "tip_hash"
    /\ \E c \in Responses, utcnow \in Nows :
          LET r == [rw EXCEPT !.byhash = c]
          IN rw' = IF HashFound(c)
                   THEN Emitted(r, TipFromHash(c.c), utcnow)
                   ELSE Emitted(r, BlankTip, utcnow)
    /\ UNCHANGED <<ovars, lvars, rq, pg, hd, su, sk, rs>>

NextRow ==
    \/ RepoItem
    \/ EmitStubRow
    \/ BranchItem
    \/ TipLog
    \/ TipHash

SpecRow == InitRow /\ [][NextRow]_vars

\* ------------------------------------------------------------------------
\* Startup of main_async, and the exit status of main (SpecStartup)
\* ------------------------------------------------------------------------
\* the values of --verify-ssl that are looked at, the trust bundles on disk
VerifySettings ==
    {"true", "false", " False ", "0", "NO", "off", "yes", "", "maybe",
     "/etc/ca.pem", "/missing.pem"}

TrustBundles == {"/etc/ca.pem"}

\* (args.verify_ssl or "").strip().lower()
StripLower(v) ==
    CASE v = " False " -> "false"
      [] v = "NO" -> "no"
      [] OTHER -> v

\* os.path.isfile(v)
IsFile(v) == v \in TrustBundles

\* lines 264-274: False, True, or the path of the bundle
VerifyOf(v) ==
    IF StripLower(v) \in {"false", "0", "no", "off"} THEN "False"
    ELSE IF StripLower(v) \in {"true", "1", "yes", "on", ""} THEN "True"
    ELSE IF IsFile(v) THEN v
    ELSE "True"

\* what TCPConnector is given as ssl: "None if verify is True else None"
ConnectorSsl(verify) == IF verify = "True" THEN "None" ELSE "None"

\* "if args.token ... elif args.username and args.password ... else return 2"
HasCredentialsLoose(a) == a.token \/ a.username

HasCredentials(a) == a.token \/ (a.username /\ a.password)

\* the command line, and what is on disk: whether --token, --username,
\* --password and --out-csv have a non-empty value, the value of
\* --verify-ssl, whether the project-key
\* file can be read and how many keys it holds, and the size of the CSV
\* file (0 when it is empty or does not exist)
InitStartup ==
    /\ CrawlIdle
    /\ LimiterIdle
    /\ rq = <<>>
    /\ pg = <<>>
    /\ hd = <<>>
    /\ rw = <<>>
    /\ sk = <<>>
    /\ rs = <<>>
    /\ \E token \in BOOLEAN, username \in BOOLEAN, password \in BOOLEAN,
          out_csv \in BOOLEAN, readable \in BOOLEAN, nkeys \in 0..1,
          csv_size \in 0..1, verify_ssl \in VerifySettings :
          su = [args |-> [token |-> token, username |-> username,
                          password |-> password, out_csv |-> out_csv,
                          verify_ssl |-> verify_ssl],
                readable |-> readable, nkeys |-> nkeys,
                csv_size |-> csv_size, pc |-> "start", opened |-> {},
                header |-> FALSE, requests |-> 0, scheduled |-> 0,
                rc |-> -1, verify |-> "", ssl |-> ""]

\* TLS setting, connector, then the credentials: without them main_async
\* returns 2 and main passes it to sys.exit
CheckCredentials ==
    /\ su.pc = "start"
    /\ LET verify == VerifyOf(su.args.verify_ssl)
           s == [su EXCEPT !.verify = verify, !.ssl = ConnectorSsl(verify)]
       IN su' = IF HasCredentials(su.args)
                THEN [s EXCEPT !.pc = "outputs"]
                ELSE [s EXCEPT !.pc = "exit", !.rc = 2]
    /\ UNCHANGED <<ovars, lvars, rq, pg, hd, rw, sk, rs>>

\* limiter, semaphore, resume log read, outputs opened in append mode
\* (which creates a file that does not exist); the header is written to an
\* empty CSV file
OpenOutputs ==
    /\ su.pc = "outputs"
    /\ su' = [su EXCEPT !.pc = "session",
                        !.opened = {"ndjson", "resume"}
                                   \cup (IF su.args.out_csv THEN {"csv"}
                                         ELSE {}),
                        !.header = su.args.out_csv
                                   /\ NeedsHeader(su.csv_size)]
    /\ UNCHANGED <<ovars, lvars, rq, pg, hd, rw, sk, rs>>

\* signal handlers, session created, project-key file read: when open()
\* raises, the exception leaves main_async and asyncio.run, and the
\* interpreter exits with status 1
ReadProjects ==
    /\ su.pc = "session"
    /\ su' = IF su.readable
             THEN [su EXCEPT !.pc = "loop"]
             ELSE [su EXCEPT !.pc = "exit", !.rc = 1]
    /\ UNCHANGED <<ovars, lvars, rq, pg, hd, rw, sk, rs>>

\* the loop over the projects: the first page of repositories of the first
\* project is requested; with no project the run ends at once
EnterLoop ==
    /\ su.pc = "loop"
    /\ su' = IF su.nkeys > 0
             THEN [su EXCEPT !.pc = "crawl", !.requests = 1]
             ELSE [su EXCEPT !.pc = "exit", !.rc = 0]
    /\ UNCHANGED <<ovars, lvars, rq, pg, hd, rw, sk, rs>>

\* the crawl: a unit is scheduled, or the listing is empty
CrawlStep ==
    /\ su.pc = "crawl"
    /\ su.scheduled = 0
    /\ \E n \in 0..1 :
          su' = IF n = 1 THEN [su EXCEPT !.scheduled = 1]
                ELSE [su EXCEPT !.pc = "exit", !.rc = 0]
    /\ UNCHANGED <<ovars, lvars, rq, pg, hd, rw, sk, rs>>

\* the run ends normally: return 0
CrawlEnds ==
    /\ su.pc = "crawl"
    /\ su.scheduled = 1
    /\ su' = [su EXCEPT !.pc = "exit", !.rc = 0]
    /\ UNCHANGED <<ovars, lvars, rq, pg, hd, rw, sk, rs>>

NextStartup ==
    \/ CheckCredentials
    \/ OpenOutputs
    \/ ReadProjects
    \/ EnterLoop
    \/ CrawlStep
    \/ CrawlEnds

SpecStartup == InitStartup /\ [][NextStartup]_vars

\* ------------------------------------------------------------------------
\* The output files of a run, with their buffers (SpecSink)
\* ------------------------------------------------------------------------
\* Repositories 1..SinkRepos are processed one after the other; a row is
\* the number of its repository. ndjson_fh and csv_fh are buffered text
\* files: a line is on disk once its buffer has been written out.
InitSink ==
    /\ CrawlIdle
    /\ LimiterIdle
    /\ rq = <<>>
    /\ pg = <<>>
    /\ hd = <<>>
    /\ rw = <<>>
    /\ su = <<>>
    /\ rs = <<>>
    /\ sk = [pc |-> "running", cur |-> 1, rows |-> 0,
             ndisk |-> <<>>, nbuf |-> <<>>, cdisk |-> <<>>, cbuf |-> <<>>,
             resume |-> <<>>]

\* one(br), or the stub: ndjson_fh.write and csv_writer.writerow
SinkWrite ==
    /\ sk.pc = "running"
    /\ sk.cur <= SinkRepos
    /\ sk.rows < SinkRows
    /\ sk' = [sk EXCEPT !.rows = @ + 1, !.nbuf = Append(@, sk.cur),
                        !.cbuf = Append(@, sk.cur)]
    /\ UNCHANGED <<ovars, lvars, rq, pg, hd, rw, su, rs>>

\* the end of process_repo: ndjson_fh.flush(), then the ResumeKey is
\* written to resume_fh and flushed
SinkRepoDone ==
    /\ sk.pc = "running"
    /\ sk.cur <= SinkRepos
    /\ sk.rows >= 1
    /\ sk' = [sk EXCEPT !.ndisk = @ \o sk.nbuf, !.nbuf = <<>>,
                        !.resume = Append(@, sk.cur),
                        !.cur = @ + 1, !.rows = 0]
    /\ UNCHANGED <<ovars, lvars, rq, pg, hd, rw, su, rs>>

\* a buffer is full and is written out
SinkBufferFull ==
    /\ sk.pc = "running"
    /\ \/ /\ sk.nbuf # <<>>
          /\ sk' = [sk EXCEPT !.ndisk = @ \o sk.nbuf, !.nbuf = <<>>]
       \/ /\ sk.cbuf # <<>>
          /\ sk' = [sk EXCEPT !.cdisk = @ \o sk.cbuf, !.cbuf = <<>>]
    /\ UNCHANGED <<ovars, lvars, rq, pg, hd, rw, su, rs>>

\* ndjson_fh.close(), csv_fh.close(), resume_fh.close()
SinkClose ==
    /\ sk.pc = "running"
    /\ sk.rows = 0
    /\ sk' = [sk EXCEPT !.pc = "closed", !.ndisk = @ \o sk.nbuf,
                        !.nbuf = <<>>, !.cdisk = @ \o sk.cbuf,
                        !.cbuf = <<>>]
    /\ UNCHANGED <<ovars, lvars, rq, pg, hd, rw, su, rs>>

\* the process is killed or the machine goes down: the buffers are lost
SinkCrash ==
    /\ sk.pc = "running"
    /\ sk' = [sk EXCEPT !.pc = "dead", !.nbuf = <<>>, !.cbuf = <<>>]
    /\ UNCHANGED <<ovars, lvars, rq, pg, hd, rw, su, rs>>

NextSink ==
    \/ SinkWrite
    \/ SinkRepoDone
    \/ SinkBufferFull
    \/ SinkClose
    \/ SinkCrash

SpecSink == InitSink /\ [][NextSink]_vars

\* ------------------------------------------------------------------------
\* The two outputs under concurrent units (SpecMirror)
\* ------------------------------------------------------------------------
\* Repositories MirrorRepos are processed concurrently; repository r has
\* nb[r] branches, and its rows are <<r, 1>> .. <<r, nb[r]>>, or the stub
\* <<r, 0>>. What a run writes to a file is a sequence of tokens: the text
\* of a record and the line terminator.
Newline == <<"nl", 0, 0>>

\* json.dumps(row) + "\n"
JsonLine(id) == <<<<"json", id[1], id[2]>>, Newline>>

\* csv_writer.writerow([...]): the record and the line terminator
CsvLine(id) == <<<<"csv", id[1], id[2]>>, Newline>>

\* csv_writer.writerow(CSV_HEADER)
HeaderLine == <<<<"header", 0, 0>>, Newline>>

\* a row that puts its CSV line in front of what the file holds
WriteRowCsvFirst(s, id) ==
    [s EXCEPT !.nd = @ \o JsonLine(id), !.cs = CsvLine(id) \o @]

\* ndjson_fh.write(...) and csv_writer.writerow(...), one after the other
\* with no await between them
WriteRow(s, id) ==
    [s EXCEPT !.nd = @ \o JsonLine(id), !.cs = @ \o CsvLine(id)]

\* the outputs are open, the header is written to an empty CSV file, and
\* every unit has the listing of its branches in flight
InitMirror ==
    /\ CrawlIdle
    /\ LimiterIdle
    /\ rq = <<>>
    /\ pg = <<>>
    /\ hd = <<>>
    /\ rw = <<>>
    /\ su = <<>>
    /\ rs = <<>>
    /\ \E size \in 0..1, nb \in [MirrorRepos -> 0..MirrorBranches] :
          sk = [pc |-> "mirror", nb |-> nb,
                st |-> [r \in MirrorRepos |-> "listing"],
                pend |-> [r \in MirrorRepos |-> {}],
                nd |-> <<>>,
                cs |-> IF NeedsHeader(size) THEN HeaderLine ELSE <<>>]

\* the listing of repository r has ended: the stub is written, or one(br)
\* is started for every branch
MirrorListed(r) ==
    /\ sk.st[r] = "listing"
    /\ sk' = IF sk.nb[r] = 0
             THEN WriteRow([sk EXCEPT !.st[r] = "done"], <<r, 0>>)
             ELSE [sk EXCEPT !.st[r] = "gather", !.pend[r] = 1..sk.nb[r]]
    /\ UNCHANGED <<ovars, lvars, rq, pg, hd, rw, su, rs>>

\* get_tip_commit of branch b returns and one(br) writes the row
MirrorTip(r, b) ==
    /\ sk.st[r] = "gather"
    /\ b \in sk.pend[r]
    /\ sk' = WriteRow([sk EXCEPT !.pend[r] = @ \ {b}], <<r, b>>)
    /\ UNCHANGED <<ovars, lvars, rq, pg, hd, rw, su, rs>>

\* asyncio.gather returns and process_repo ends
MirrorRepoDone(r) ==
    /\ sk.st[r] = "gather"
    /\ sk.pend[r] = {}
    /\ sk' = [sk EXCEPT !.st[r] = "done"]
    /\ UNCHANGED <<ovars, lvars, rq, pg, hd, rw, su, rs>>

NextMirror ==
    \/ \E r \in MirrorRepos : MirrorListed(r)
    \/ \E r \in MirrorRepos, b \in 1..MirrorBranches : MirrorTip(r, b)
    \/ \E r \in MirrorRepos : MirrorRepoDone(r)

SpecMirror == InitMirror /\ [][NextMirror]_vars

\* ------------------------------------------------------------------------
\* The resume log and what startup reads from it (SpecResume)
\* ------------------------------------------------------------------------
\* A line is a sequence of tokens: f"{project_key}/{slug}\n" is the
\* project key, "/", the slug and the newline.
ResumeLine(project_key, slug) == <<project_key, "/", slug, "\n">>

\* line.strip()
Strip(line) == SelectSeq(line, LAMBDA t : t \notin {"\n", " "})

\* already = {line.strip() for line in rf if line.strip()}
ReadResumeOdd(lines) ==
    {Strip(lines[i]) : i \in {j \in DOMAIN lines :
        /\ Strip(lines[j]) # <<>>
        /\ Cardinality({k \in DOMAIN lines : lines[k] = lines[j]}) % 2 = 1}}

ReadResume(lines) ==
    {Strip(lines[i]) : i \in {j \in DOMAIN lines : Strip(lines[j]) # <<>>}}

\* the repositories a run may mark done
ResumeRepos == {<<"P1", "r1">>, <<"P1", "r2">>, <<"P2", "r1">>}

\* "log" is the resume file; "once" is the same file without the lines
\* that repeat an earlier one
InitResume ==
    /\ CrawlIdle
    /\ LimiterIdle
    /\ rq = <<>>
    /\ pg = <<>>
    /\ hd = <<>>
    /\ rw = <<>>
    /\ su = <<>>
    /\ sk = <<>>
    /\ rs = [pc |-> "appending", log |-> <<>>, once |-> <<>>,
             already |-> {}, alreadyOnce |-> {}]

\* resume_fh.write(f"{project_key}/{slug}\n"): the key is appended, for the
\* first time or again
MarkDoneLine ==
    /\ rs.pc = "appending"
    /\ Len(rs.log) < MaxLog
    /\ \E r \in ResumeRepos :
          LET line == ResumeLine(r[1], r[2])
          IN rs' = [rs EXCEPT !.log = Append(@, line),
                              !.once = IF \E i \in DOMAIN rs.once :
                                              rs.once[i] = line THEN @
                                       ELSE Append(@, line)]
    /\ UNCHANGED <<ovars, lvars, rq, pg, hd, rw, su, sk>>

\* the file has an empty line
BlankLine ==
    /\ rs.pc = "appending"
    /\ Len(rs.log) < MaxLog
    /\ rs' = [rs EXCEPT !.log = Append(@, <<"\n">>),
                        !.once = Append(@, <<"\n">>)]
    /\ UNCHANGED <<ovars, lvars, rq, pg, hd, rw, su, sk>>

\* the next startup reads the file
ResumeStartup ==
    /\ rs.pc = "appending"
    /\ rs' = [rs EXCEPT !.pc = "read", !.already = ReadResume(rs.log),
                        !.alreadyOnce = ReadResume(rs.once)]
    /\ UNCHANGED <<ovars, lvars, rq, pg, hd, rw, su, sk>>

NextResume ==
    \/ MarkDoneLine
    \/ BlankLine
    \/ ResumeStartup

SpecResume == InitResume /\ [][NextResume]_vars

\* ------------------------------------------------------------------------
\* Properties
\* ------------------------------------------------------------------------
Range(f) == {f[x] : x \in DOMAIN f}

\* the ResumeKey of unit i is a line of the resume log
InLog(i) == KeyOf(units[i]) \in Range(resume_log)

\* the branch listing of the unit has ended and every row it calls for (one
\* per enumerated branch, or the stub) has reached the line-delimited file
AllRowsFlushed(u) == u.listed /\ u.fl = RowsOf(u)

\* C1, as stated: at every point of a run the ResumeKey of a repository is in
\* the resume log if and only if every row of the repository has been
\* flushed to the line-delimited output.
C1_ResumeIffFlushed ==
    \A i \in DOMAIN units : InLog(i) <=> AllRowsFlushed(units[i])

\* C1, amended: every ResumeKey that the run has appended to the resume log
\* belongs to a repository all of whose rows have been flushed to the
\* line-delimited output (the converse fails while a repository whose rows
\* another unit's flush has already pushed out waits to be marked).
C1_ResumeOnlyIfFlushed ==
    \A k \in Range(resume_log) \ already :
        \E i \in DOMAIN units :
            KeyOf(units[i]) = k /\ AllRowsFlushed(units[i])

C1_Witness ==
    \E i \in DOMAIN units :
        units[i].nb = 2 /\ InLog(i) /\ units[i].fl = 2

\* C2: a step that appends a ResumeKey to the resume log is the step in
\* which a unit of that repository returns, and it leaves every row of the
\* unit written and flushed; a unit that has returned writes no further row.
C2_AppendAfterFlush ==
    [][/\ Len(resume_log') > Len(resume_log) =>
             \E i \in DOMAIN units :
                 /\ units[i].st # "done" /\ units'[i].st = "done"
                 /\ resume_log' = Append(resume_log, KeyOf(units[i]))
                 /\ units'[i].listed
                 /\ units'[i].wr = RowsOf(units'[i])
                 /\ units'[i].fl = units'[i].wr
       /\ \A i \in DOMAIN units :
             units[i].st = "done" => units'[i].wr = units[i].wr]_vars

C2_Witness ==
    \E i, j \in DOMAIN units :
        /\ i # j
        /\ InLog(i) /\ units[i].nb >= 1
        /\ units[j].st = "gather" /\ units[j].wr >= 1

\* C3: no unit of work exists for a repository whose ResumeKey was in the
\* resume log at startup; branch listings, tip resolutions and rows all
\* belong to units, so such a repository gets none of them.
C3_DoneReposSkipped ==
    \A i \in DOMAIN units : KeyOf(units[i]) \notin already

C3_Witness ==
    /\ already # {}
    /\ opc = "closed"
    /\ ~stop
    /\ faults = 0
    /\ Len(units) = 3

\* C4, as stated: a repository whose branch listing ended in the absence
\* signal gets no row and its ResumeKey is not appended.
C4_FailedListingNoRows ==
    \A i \in DOMAIN units :
        units[i].trunc => units[i].wr = 0 /\ ~InLog(i)

\* C4, amended: a repository whose branch listing ended in the absence
\* signal is processed with the branches listed before the failure: with
\* none, the stub row is written and flushed and the ResumeKey appended in
\* the same step; otherwise the unit resolves those branches, and once it
\* has returned their rows are flushed and the ResumeKey is in the log.
C4_FailedListingTruncates ==
    \A i \in DOMAIN units :
        units[i].trunc =>
            /\ units[i].listed
            /\ units[i].nb = 0 =>
                  /\ units[i].st = "done"
                  /\ units[i].wr = 1 /\ units[i].fl = 1
                  /\ InLog(i)
            /\ units[i].nb > 0 =>
                  /\ units[i].st # "queued" /\ units[i].st # "enum"
                  /\ units[i].st = "done" =>
                        units[i].fl = units[i].nb /\ InLog(i)

C4_Witness ==
    /\ \E i \in DOMAIN units :
          units[i].trunc /\ units[i].nb > 0 /\ units[i].st = "done"
    /\ \E j \in DOMAIN units :
          /\ units[j].trunc /\ units[j].nb = 0
          /\ BranchPages(units[j].proj, units[j].slug) # <<0>>

\* C5: any two returns of wait() on the shared limiter are at least 1/rps
\* apart.
C5_GrantsSpaced ==
    \A i, j \in DOMAIN grants :
        i < j => grants[j] - grants[i] >= MinInterval

\* the units that were scheduled and have not completed
NotCompleted == {i \in DOMAIN units : ~TaskDone(units[i])}

\* C6: a unit is scheduled only when at most 4 x max_concurrent scheduled
\* units are not completed.  (This is the claim: if more were pending after
\* a unit was scheduled, one of them must finish before the next unit is
\* scheduled, so each scheduling step starts with at most 4 x max_concurrent
\* pending; and conversely.)
C6_BackpressureHolds ==
    [][Len(units') > Len(units) =>
          Cardinality(NotCompleted) <= BackpressureFactor * max_concurrent]_vars

\* C7: at most max_concurrent repositories have a branch-listing or
\* tip-commit request in flight or pending.
C7_OuterBound ==
    Cardinality({i \in DOMAIN units :
                    \/ units[i].st = "enum"
                    \/ units[i].w + units[i].q + units[i].h > 0})
        <= max_concurrent

\* C8: within one repository at most 16 tip resolutions are in flight.
C8_InnerBound ==
    \A i \in DOMAIN units : units[i].q + units[i].h <= InnerBound

C8_Witness ==
    \E i \in DOMAIN units :
        units[i].q + units[i].h = InnerBound /\ units[i].w > 0

\* C9: when the run has ended after the stop flag was set, nothing was
\* cancelled and every unit that was scheduled has completed: its rows are
\* written and flushed and its ResumeKey is in the resume log.
C9_StopDrains ==
    (stop /\ opc \in {"closed", "crashed"}) =>
        \A i \in DOMAIN units :
            /\ units[i].st = "done"
            /\ units[i].cx = 0
            /\ units[i].wr = RowsOf(units[i])
            /\ units[i].fl = units[i].wr
            /\ InLog(i)

\* C10: the run eventually reaches Closed: discovery has ended, every
\* scheduled unit has completed and the handles are closed.
C10_ReachesClosed ==
    <>(opc = "closed" /\ \A i \in DOMAIN units : TaskDone(units[i]))

\* ------------------------------------------------------------------------
\* Claims on backoff_get (SpecRetry)
\* ------------------------------------------------------------------------
\* C11: a call whose every physical attempt got a retriable status has
\* slept 1, 2, 4, 8, 16, 30 seconds after attempts 0..5 and, when it is
\* over, has made exactly 6 attempts and returned None
C11_RetriableExhausts ==
    \A g \in DOMAIN rq :
        rq[g].allRetriable =>
            /\ \A n \in 1..Len(rq[g].sleeps) :
                  rq[g].sleeps[n] = <<1, 2, 4, 8, 16, 30>>[n]
            /\ rq[g].pc \in {"returned", "raised"} =>
                  /\ rq[g].tries = 6
                  /\ Len(rq[g].sleeps) = 6
                  /\ rq[g].slept = 61
                  /\ rq[g].result = "absent"

C11_Witness ==
    \E g \in DOMAIN rq :
        /\ rq[g].allRetriable
        /\ rq[g].pc = "returned"
        /\ rq[g].status = 503

\* C12: a call that returned a parsed body after k failed attempts (a
\* retriable status or a request error each) made k + 1 attempts, k < 6,
\* and slept 0, 1, 3, 7, 15, 31 seconds in all for k = 0..5
C12_SuccessAfterRetries ==
    \A g \in DOMAIN rq :
        rq[g].result = "body" =>
            /\ rq[g].pc = "returned"
            /\ Len(rq[g].sleeps) < 6
            /\ rq[g].tries = Len(rq[g].sleeps) + 1
            /\ rq[g].slept = <<0, 1, 3, 7, 15, 31>>[Len(rq[g].sleeps) + 1]

C12_Witness ==
    \E g \in DOMAIN rq :
        /\ rq[g].result = "body"
        /\ rq[g].tries = 4
        /\ rq[g].slept = 7

\* C13: a status of 400 or more outside RETRIABLE ends the call at once:
\* None is returned, no attempt follows, no sleep follows, nothing is raised
C13_NonRetriableAbsent ==
    \A g \in DOMAIN rq :
        (rq[g].status >= 400 /\ rq[g].status \notin {429, 500, 502, 503, 504}) =>
            /\ rq[g].pc = "returned"
            /\ rq[g].result = "absent"
            /\ rq[g].tries = Len(rq[g].sleeps) + 1
            /\ rq[g].attempt = Len(rq[g].sleeps)

C13_Witness ==
    \E g \in DOMAIN rq :
        /\ rq[g].status = 501
        /\ rq[g].pc = "returned"
        /\ rq[g].tries = 3

\* C14: no call of backoff_get ends by raising
C14_NeverRaises ==
    \A g \in DOMAIN rq : rq[g].pc # "raised"

\* C15: at every point a call has started at most as many physical
\* attempts as limiter.wait() has returned to it, and an attempt in flight
\* has its own completed wait
C15_AttemptsWithinGrants ==
    \A g \in DOMAIN rq :
        /\ rq[g].tries <= rq[g].waits
        /\ rq[g].pc = "get" => rq[g].waits = rq[g].attempt + 1

C15_Witness ==
    \E g \in DOMAIN rq :
        /\ rq[g].pc = "get"
        /\ rq[g].attempt = 2
        /\ rq[g].tries = 3
        /\ rq[g].waits = 3

\* ------------------------------------------------------------------------
\* Claims on paged_get (SpecPaged)
\* ------------------------------------------------------------------------
Ascending(s) == \A j \in 1..(Len(s) - 1) : s[j] < s[j + 1]

\* C16: when no page fetch fails, the generator yields items in the
\* server's order, none twice, and when it has ended after the page that
\* said isLastPage it has yielded every item of the list, with
\* nextPageStart on the pages or without
C16_YieldsAllPages ==
    pg # <<>> =>
        /\ ~pg.failed /\ pg.pc # "raised" =>
              /\ Ascending(pg.yielded)
              /\ Range(pg.yielded) \subseteq (1..pg.n) \ pg.hidden
        /\ ~pg.failed /\ pg.pc = "ended" =>
              /\ Range(pg.yielded) = (1..pg.n) \ pg.hidden
              /\ pg.requests[Len(pg.requests)] + pg.size >= pg.n

C16_Witness ==
    /\ pg # <<>>
    /\ pg.pc = "ended"
    /\ ~pg.failed
    /\ ~pg.hinted
    /\ Len(pg.requests) = 3
    /\ Len(pg.yielded) = 3

\* C17: when the fetch of a page gives None the generator has ended, has
\* yielded exactly the items of the pages before it, in order, and the
\* failed request is the last one it made
C17_AbsentEndsSequence ==
    (pg # <<>> /\ pg.failed) =>
        /\ pg.pc = "ended"
        /\ Ascending(pg.yielded)
        /\ Range(pg.yielded) = (1..pg.start) \ pg.hidden
        /\ pg.requests[Len(pg.requests)] = pg.start

C17_Witness ==
    /\ pg # <<>>
    /\ pg.failed
    /\ Len(pg.requests) = 3
    /\ Len(pg.yielded) = 2

\* ------------------------------------------------------------------------
\* Claims on the CSV header (SpecHeader)
\* ------------------------------------------------------------------------
\* C18: in the CSV file, and in the file followed by what the running run
\* has written so far, the header is the first line and no other line
CSV_HeaderFirstOnly(lines) ==
    \A i \in 1..Len(lines) : lines[i] = "H" <=> i = 1

C18_HeaderOnce ==
    hd # <<>> =>
        /\ CSV_HeaderFirstOnly(hd.disk)
        /\ CSV_HeaderFirstOnly(hd.disk \o hd.buf)

C18_Witness ==
    /\ hd # <<>>
    /\ hd.runs = 3
    /\ hd.pc = "running"
    /\ Len(hd.disk) = 3
    /\ hd.buf = <<"R">>

\* ------------------------------------------------------------------------
\* Claims on the rows of a repository (Spec)
\* ------------------------------------------------------------------------
\* C19: a repository whose enumeration gave no branch has exactly one row,
\* the stub with branch "" and has_branches "no", and its ResumeKey is in
\* the resume log
C19_StubForEmptyRepo ==
    \A i \in DOMAIN units :
        (units[i].listed /\ units[i].nb = 0) =>
            /\ units[i].st = "done"
            /\ units[i].wr = 1
            /\ Len(units[i].stub) = 1
            /\ units[i].stub[1].repo_slug = units[i].slug
            /\ units[i].stub[1].branch = ""
            /\ units[i].stub[1].has_branches = "no"
            /\ InLog(i)

C19_Witness ==
    \E i \in DOMAIN units :
        /\ units[i].listed
        /\ units[i].nb = 0
        /\ ~units[i].trunc
        /\ units[i].wr = 1
        /\ InLog(i)

\* C20: a repository with n >= 1 enumerated branches whose task is over
\* has exactly n rows
C20_OneRowPerBranch ==
    \A i \in DOMAIN units :
        (units[i].listed /\ units[i].nb >= 1 /\ TaskDone(units[i])) =>
            units[i].wr = units[i].nb

\* ------------------------------------------------------------------------
\* Claims on the fetchers and the rows (SpecRow)
\* ------------------------------------------------------------------------
\* the commit-log query of the branch has been answered
LogAnswered == rw # <<>> /\ rw.log.kind # "none"

\* C21: once the commit log is answered, the by-hash request has been
\* issued exactly when the log gave no values and the branch listing
\* carried a commit hash; after a by-hash answer with a commit the row has
\* its hash and author and no date, and when both steps gave nothing the
\* row's commit fields are all empty
C21_FallbackIff ==
    LogAnswered =>
        /\ ("hash" \in Range(rw.reqs)) <=>
              (/\ rw.log.kind \in {"absent", "empty"}
               /\ rw.br.latestCommit \notin {Null, ""})
        /\ (rw.pc = "emitted" /\ rw.byhash.kind = "values"
                /\ rw.byhash.c.id # Missing) =>
              /\ rw.row.last_commit_hash = rw.byhash.c.id
              /\ rw.byhash.c.author.kind = "dict" =>
                    /\ rw.row.last_commit_author
                          = Get(rw.byhash.c.author.name, "")
                    /\ rw.row.last_commit_email
                          = Get(rw.byhash.c.author.emailAddress, "")
              /\ rw.row.last_commit_date_utc = NoIso
        /\ (rw.pc = "emitted" /\ rw.log.kind \in {"absent", "empty"}
                /\ rw.byhash.kind \in {"none", "absent", "empty"}) =>
              /\ rw.row.last_commit_hash = ""
              /\ rw.row.last_commit_author = ""
              /\ rw.row.last_commit_email = ""
              /\ rw.row.last_commit_date_utc = NoIso

C21_Witness ==
    /\ LogAnswered
    /\ rw.pc = "emitted"
    /\ rw.log.kind = "empty"
    /\ rw.reqs = <<"log", "hash">>
    /\ rw.byhash.kind = "values"
    /\ rw.row.last_commit_hash = "abc123"
    /\ rw.row.last_commit_author = "Ann"
    /\ rw.byhash.c.authorTimestamp = 86400000

\* C22: in every emitted row days_since_last_commit is the empty string
\* exactly when the row has no commit date, and else the decimal of a
\* non-negative integer: 0 for a commit dated after the current time, the
\* whole days elapsed otherwise
C22_DaysNonNegative ==
    (rw # <<>> /\ rw.pc = "emitted") =>
        LET d == rw.row.days_since_last_commit
            ts == rw.log.c.authorTimestamp
        IN /\ (d = EmptyStr) <=> ~rw.row.last_commit_date_utc.known
           /\ ~d.neg
           /\ rw.row.last_commit_date_utc.known =>
                 /\ Len(d.digits) >= 1
                 /\ ts > rw.utcnow => d.digits = <<0>>
                 /\ (ts = 0 /\ rw.utcnow = 172800000) => d.digits = <<2>>
                 /\ (ts = 0 /\ rw.utcnow = 86399999) => d.digits = <<0>>
                 /\ (ts = 86400000 /\ rw.utcnow = 172800000) => d.digits = <<1>>

C22_Witness ==
    /\ rw # <<>>
    /\ rw.pc = "emitted"
    /\ rw.row.last_commit_date_utc.known
    /\ rw.log.c.authorTimestamp = 259200000
    /\ rw.utcnow = 86399999
    /\ rw.row.days_since_last_commit = [neg |-> FALSE, digits |-> <<0>>]

\* C24: no item of a successful response makes a fetcher raise
C24_ShapesTolerated ==
    rw # <<>> => rw.pc # "raised"

\* C25: the CSV row of an emitted row has the fields of its line-delimited
\* record, with the same values
C25_CsvSameFields ==
    (rw # <<>> /\ rw.pc = "emitted") =>
        /\ DOMAIN rw.csv = DOMAIN rw.row
        /\ \A k \in DOMAIN rw.row \cap DOMAIN rw.csv : rw.csv[k] = rw.row[k]

\* ------------------------------------------------------------------------
\* Claims on startup (SpecStartup)
\* ------------------------------------------------------------------------
\* C23: a run without a token and without both username and password, or
\* whose project-key file cannot be read, never issues a request, never
\* schedules a unit, and its exit status is not 0
C23_FatalStartup ==
    (/\ su # <<>>
     /\ \/ ~(su.args.token \/ (su.args.username /\ su.args.password))
        \/ ~su.readable) =>
        /\ su.requests = 0
        /\ su.scheduled = 0
        /\ su.pc \notin {"loop", "crawl"}
        /\ su.rc # 0

C23_Witness ==
    /\ su # <<>>
    /\ su.pc = "exit"
    /\ su.rc = 1
    /\ su.args.username /\ su.args.password /\ ~su.args.token
    /\ ~su.readable

\* C35: a run that ends in a fatal startup error has opened (and so
\* created) none of the outputs and has written no header
C35_FatalLeavesOutputs ==
    (su # <<>> /\ su.pc = "exit" /\ su.rc # 0) =>
        su.opened = {} /\ ~su.header

\* C36: the connector's ssl argument follows the setting: False (no
\* verification) for false/0/no/off, the trust bundle for the path of an
\* existing file, and None (default verification) otherwise
C36_TlsSetting ==
    (su # <<>> /\ su.pc # "start") =>
        LET v == su.args.verify_ssl
        IN IF StripLower(v) \in {"false", "0", "no", "off"}
           THEN su.ssl = "False"
           ELSE IF v \in TrustBundles THEN su.ssl = v
           ELSE su.ssl = "None"

\* ------------------------------------------------------------------------
\* Claims on the output files (SpecSink)
\* ------------------------------------------------------------------------
\* the lines of repository r in a sequence of lines
LinesOf(lines, r) == {i \in DOMAIN lines : lines[i] = r}

\* C26: the rows of a repository whose ResumeKey is in the resume log are
\* on disk in the line-delimited file and in the CSV file
C26_FlushedInBoth ==
    sk # <<>> =>
        \A r \in Range(sk.resume) :
            /\ LinesOf(sk.ndisk, r) # {}
            /\ LinesOf(sk.nbuf, r) = {}
            /\ Cardinality(LinesOf(sk.cdisk, r))
                  = Cardinality(LinesOf(sk.ndisk, r))

\* ------------------------------------------------------------------------
\* Claims on the resume log (SpecResume)
\* ------------------------------------------------------------------------
\* C28: startup reads the same set of done keys from a resume log with
\* repeated keys as from the log with each key once, and skips the same
\* repositories
C28_MarkDoneIdempotent ==
    (rs # <<>> /\ rs.pc = "read") =>
        /\ rs.already = rs.alreadyOnce
        /\ \A r \in ResumeRepos :
              (<<r[1], "/", r[2]>> \in rs.already)
                  <=> (<<r[1], "/", r[2]>> \in rs.alreadyOnce)
        /\ \A r \in ResumeRepos :
              (<<r[1], "/", r[2]>> \in rs.already)
                  <=> (<<r[1], "/", r[2], "\n">> \in Range(rs.log))

C28_Witness ==
    /\ rs # <<>>
    /\ rs.pc = "read"
    /\ Len(rs.log) = 3
    /\ Len(rs.once) = 1
    /\ rs.already = {<<"P1", "/", "r1">>}

\* ------------------------------------------------------------------------
\* Claims on the run as a whole (Spec)
\* ------------------------------------------------------------------------
\* C29: at most 4 x max_concurrent + 1 scheduled units are not completed
C29_PendingBounded ==
    Cardinality(NotCompleted) <= BackpressureFactor * max_concurrent + 1

\* no exception has been raised in the run so far
NoRaise ==
    /\ opc \notin {"crashing", "crashed"}
    /\ \A i \in DOMAIN units :
          units[i].ex = 0 /\ units[i].st \notin {"error", "cancelled"}

\* C27: as long as no fetch has raised (fetches may have ended in the
\* absence signal), the run goes on to its normal end, where every
\* scheduled repository is done and in the resume log, and, unless a stop
\* was signalled, every project has been discovered
C27_AbsenceNeverAborts ==
    /\ [](NoRaise /\ opc = "closed" =>
             /\ \A i \in DOMAIN units : units[i].st = "done" /\ InLog(i)
             /\ ~stop => pidx = Len(Projects))
    /\ <>(opc = "closed" \/ ~NoRaise)

C27_Witness ==
    /\ NoRaise
    /\ opc = "closed"
    /\ ~stop
    /\ faults >= 2
    /\ srv = "pair"
    /\ Len(units) = 3

\* C30: no ResumeKey is scheduled twice or appended to the resume log
\* twice, and no repository has more rows than branches (or than the stub)
C30_KeyAtMostOnce ==
    /\ \A i, j \in DOMAIN units : KeyOf(units[i]) = KeyOf(units[j]) => i = j
    /\ \A i, j \in DOMAIN resume_log : resume_log[i] = resume_log[j] => i = j
    /\ \A i, j \in DOMAIN units :
          /\ KeyOf(units[i]) = KeyOf(units[j])
          /\ units[i].wr > 0
          /\ units[j].wr > 0
          => i = j

\* C31: once stop is set, no further unit is scheduled, no further project
\* is taken up and no further page of repository discovery is requested
C31_StopHalts ==
    [][stop => /\ Len(units') = Len(units)
               /\ pidx' = pidx
               /\ page' = page]_vars

\* the rows written so far, per unit
Written(us) == [i \in DOMAIN us |-> us[i].wr]

\* C32: after the handles are closed no row and no key is written, and a
\* unit that has ended has no tip resolution waiting or in flight
C32_NothingAfterEnd ==
    [][/\ opc \in {"closed", "crashed"} =>
             resume_log' = resume_log /\ Written(units') = Written(units)
       /\ \A i \in DOMAIN units' :
             TaskDone(units'[i]) =>
                 units'[i].w + units'[i].q + units'[i].h = 0]_vars

\* ------------------------------------------------------------------------
\* Claims on the page offsets (SpecOffsets)
\* ------------------------------------------------------------------------
\* C33: every page request of a sequence has a start offset strictly
\* greater than that of the request before it
C33_OffsetsIncrease ==
    pg # <<>> => Ascending(pg.requests)

\* ------------------------------------------------------------------------
\* Claims on the two outputs under concurrency (SpecMirror)
\* ------------------------------------------------------------------------
\* every record of the stream is directly followed by a line terminator
CompleteLines(stream) ==
    /\ Len(stream) % 2 = 0
    /\ \A i \in DOMAIN stream :
          IF i % 2 = 1 THEN stream[i] # Newline ELSE stream[i] = Newline

\* the rows of the records of a kind in a stream, in their order
RowsIn(stream, kind) ==
    LET recs == SelectSeq(stream, LAMBDA t : t[1] = kind)
    IN [i \in DOMAIN recs |-> <<recs[i][2], recs[i][3]>>]

\* C34: in both outputs every row is a complete line, and the rows of the
\* CSV file after its header are the rows of the line-delimited file, in
\* the same order, one for one
C34_MirrorSameOrder ==
    sk # <<>> =>
        /\ CompleteLines(sk.nd)
        /\ CompleteLines(sk.cs)
        /\ \A i \in DOMAIN sk.cs : sk.cs[i][1] = "header" => i = 1
        /\ \A i \in DOMAIN sk.nd : sk.nd[i][1] \in {"json", "nl"}
        /\ RowsIn(sk.cs, "csv") = RowsIn(sk.nd, "json")

C34_Witness ==
    /\ sk # <<>>
    /\ \A r \in DOMAIN sk.st : sk.st[r] = "done"
    /\ sk.cs[1][1] = "header"
    /\ RowsIn(sk.nd, "json") = <<<<2, 1>>, <<1, 2>>, <<2, 2>>, <<1, 1>>>>

====
